---------------------------- MODULE Spec2Model ----------------------------
(***************************************************************************)
(* Staking-rewards CSV exporter: the paginated fetcher (src/utils.js), the *)
(* snapshot locator, the epoch sampler and the rewards run                 *)
(* (fetchStakingRewardsTest and main of the test-actual-impl script).      *)
(***************************************************************************)
EXTENDS Integers, Sequences, FiniteSets, TLC

VARIABLES
  call, ret,                       \* a pure function's arguments and its result
  impl, source, limit,             \* paginatedFetch: which copy, the items held, page size
  offset, items, wasClipped,       \* paginatedFetch: its locals
  fetchPc, responses, fetchResult, \* paginatedFetch: position, responses seen, outcome
  nexus,                           \* the index: events, delegations, histories, failing lookups
  startEpoch, endEpoch,            \* getEpochsForYear(year)
  granularity, runPc,              \* the run main is in, and its position
  validatorState,                  \* validator -> shares, prevTotalValue, period accumulators
  lastProcessedEpoch,
  sampleIdx, pending, emitIdx,     \* loop positions: sample epoch, events to apply, validator
  results,                         \* the rows pushed by the run
  applied,                         \* history of the events applied by the run
  monthlyResults, yearlyResults    \* main: what the two runs returned

callVars  == <<call, ret>>
fetchVars == <<impl, source, limit, offset, items, wasClipped, fetchPc, responses, fetchResult>>
inputVars == <<nexus, startEpoch, endEpoch>>
runVars   == <<granularity, runPc, validatorState, lastProcessedEpoch, sampleIdx, pending,
               emitIdx, results, applied, monthlyResults, yearlyResults>>
vars      == <<callVars, fetchVars, inputVars, runVars>>

Max(a, b) == IF a >= b THEN a ELSE b
Min(a, b) == IF a <= b THEN a ELSE b

\* JavaScript null / a rejected promise
Null == [epoch |-> -1, active_balance |-> 0, active_shares |-> 0]
NoResult == [failed |-> TRUE]

(***************************************************************************)
(* Snapshot locator                                                        *)
(***************************************************************************)
\* history[mid].epoch <= targetEpoch
EntryAtOrBeforeStrict(entry, targetEpoch) == entry.epoch < targetEpoch
EntryAtOrAfter(entry, targetEpoch) == entry.epoch >= targetEpoch
EntryAtOrBefore(entry, targetEpoch) == entry.epoch <= targetEpoch

\* the while loop; low, high and mid are the 0-based indices of the code
RECURSIVE BinarySearch(_, _, _, _, _)
BinarySearch(history, targetEpoch, low, high, result) ==
  IF low <= high
    THEN LET mid == (low + high) \div 2
         IN  IF EntryAtOrBefore(history[mid + 1], targetEpoch)
               THEN BinarySearch(history, targetEpoch, mid + 1, high, history[mid + 1])
               ELSE BinarySearch(history, targetEpoch, low, mid - 1, result)
    ELSE result

findHistoryEntryForEpoch(history, targetEpoch) ==
  IF Len(history) = 0
    THEN Null
    ELSE BinarySearch(history, targetEpoch, 0, Len(history) - 1, Null)

(***************************************************************************)
(* Epoch sampler                                                           *)
(***************************************************************************)
targetSamples == 12

\* for (let e = startEpoch + step; e <= endEpoch; e += step) push(e)
RECURSIVE SteppedEpochs(_, _, _, _)
SteppedEpochs(e, toEpoch, step, acc) ==
  IF e <= toEpoch
    THEN SteppedEpochs(e + step, toEpoch, step, Append(acc, e))
    ELSE acc

\* the push of endEpoch after the loop
CloseAtEndNever(stepped, toEpoch) == stepped
\* endEpoch pushed without looking at the last sample
CloseAtEndAlways(stepped, toEpoch) == Append(stepped, toEpoch)
CloseAtEnd(stepped, toEpoch) ==
  IF Len(stepped) = 0 \/ stepped[Len(stepped)] # toEpoch
    THEN Append(stepped, toEpoch)
    ELSE stepped

\* the loop started at startEpoch itself (the baseline pushed as a sample)
EpochsToProcessFromStart(fromEpoch, toEpoch, gran) ==
  LET totalEpochs == toEpoch - fromEpoch + 1
  IN  IF gran = "year"
        THEN <<toEpoch>>
        ELSE LET step == Max(1, totalEpochs \div targetSamples)
             IN  CloseAtEnd(SteppedEpochs(fromEpoch, toEpoch, step, <<>>), toEpoch)

EpochsToProcess(fromEpoch, toEpoch, gran) ==
  LET totalEpochs == toEpoch - fromEpoch + 1
  IN  IF gran = "year"
        THEN <<toEpoch>>
        ELSE LET step == Max(1, totalEpochs \div targetSamples)
             IN  CloseAtEnd(SteppedEpochs(fromEpoch + step, toEpoch, step, <<>>), toEpoch)

(***************************************************************************)
(* Bounds of the checked inputs                                            *)
(***************************************************************************)
MaxHistEpoch == 5     \* snapshot epochs of a located history are in 1..MaxHistEpoch
MaxStart     == 2     \* sampler: startEpoch in 0..MaxStart
MaxRange     == 30    \* sampler: endEpoch - startEpoch in 0..MaxRange
MaxItems     == 4     \* paginatedFetch: the source holds 0..MaxItems items
MaxLimit     == 3     \* paginatedFetch: page size in 1..MaxLimit

NotCalled == [fn |-> "none"]
Pending   == [done |-> FALSE]
Returned(value) == [done |-> TRUE, value |-> value]

IdleCall  == call = NotCalled /\ ret = Pending
IdleFetch ==
  /\ impl = "utils" /\ source = <<>> /\ limit = 1
  /\ offset = 0 /\ items = <<>> /\ wasClipped = FALSE
  /\ fetchPc = "idle" /\ responses = <<>> /\ fetchResult = NoResult
NoStates == [v \in {} |-> 0]
IdleRun ==
  /\ nexus = [addEvents |-> <<>>, debondEvents |-> <<>>, delegations |-> <<>>,
              history |-> <<>>, failingEpochs |-> {}]
  /\ startEpoch = 0 /\ endEpoch = 0
  /\ granularity = "month" /\ runPc = "idle"
  /\ validatorState = NoStates /\ lastProcessedEpoch = 0
  /\ sampleIdx = 0 /\ pending = <<>> /\ emitIdx = 0
  /\ results = <<>> /\ applied = <<>>
  /\ monthlyResults = <<>> /\ yearlyResults = <<>>

(***************************************************************************)
(* paginatedFetch.  impl = "utils" is src/utils.js:16 (it also stops on    *)
(* total_count and returns wasClipped); impl = "script" is the copy of the *)
(* test scripts (it stops on a short page only and returns the items).     *)
(* The source holds the items source[1..N] and serves a request            *)
(* (limit, offset) with the items at positions offset .. offset+limit-1;   *)
(* total_count and is_total_count_clipped are whatever it reports          *)
(* (total_count 0 also stands for a response without the field).           *)
(***************************************************************************)
Page(src, lim, off) ==
  IF off >= Len(src) THEN <<>> ELSE SubSeq(src, off + 1, Min(off + lim, Len(src)))

\* if (response.data.is_total_count_clipped) wasClipped = true
TrackClippedLastPage(was, clipped) == clipped
TrackClipped(was, clipped) == was \/ clipped

\* the break condition of the loop
LastPageWhenEmpty(which, pageLen, lim, off, total_count) == pageLen = 0
LastPage(which, pageLen, lim, off, total_count) ==
  IF which = "utils"
    THEN pageLen < lim \/ off + pageLen >= total_count
    ELSE pageLen < lim

FetchReturn(which, its, clipped) ==
  IF which = "utils" THEN [items |-> its, wasClipped |-> clipped] ELSE [items |-> its]

InitFetch ==
  /\ impl \in {"utils", "script"}
  /\ source \in { [i \in 1..n |-> i] : n \in 0..MaxItems }
  /\ limit \in 1..MaxLimit
  /\ offset = 0 /\ items = <<>> /\ wasClipped = FALSE
  /\ fetchPc = "request" /\ responses = <<>> /\ fetchResult = NoResult
  /\ IdleCall /\ IdleRun

\* one iteration of the loop: the request is answered
PageResponse ==
  /\ fetchPc = "request"
  /\ \E total_count \in 0..(Len(source) + 1), is_total_count_clipped \in BOOLEAN :
       LET pageItems == Page(source, limit, offset)
           all       == items \o pageItems
           clip      == IF impl = "utils" THEN TrackClipped(wasClipped, is_total_count_clipped)
                        ELSE wasClipped
       IN  /\ items' = all
           /\ wasClipped' = clip
           /\ responses' = Append(responses, [ok |-> TRUE, len |-> Len(pageItems),
                                              clipped |-> is_total_count_clipped])
           /\ IF LastPage(impl, Len(pageItems), limit, offset, total_count)
                THEN /\ fetchPc' = "returned"
                     /\ fetchResult' = FetchReturn(impl, all, clip)
                     /\ UNCHANGED offset
                ELSE /\ offset' = offset + Len(pageItems)
                     /\ UNCHANGED <<fetchPc, fetchResult>>
  /\ UNCHANGED <<impl, source, limit, callVars, inputVars, runVars>>

\* a failed request returned what was fetched so far instead of throwing
PageFailsReturnsPartial ==
  /\ fetchPc = "request"
  /\ responses' = Append(responses, [ok |-> FALSE, len |-> 0, clipped |-> FALSE])
  /\ fetchPc' = "returned"
  /\ fetchResult' = FetchReturn(impl, items, wasClipped)
  /\ UNCHANGED <<impl, source, limit, offset, items, wasClipped, callVars, inputVars, runVars>>

\* axios.get rejects: nothing catches it, the call rejects with that error
PageFails ==
  /\ fetchPc = "request"
  /\ responses' = Append(responses, [ok |-> FALSE, len |-> 0, clipped |-> FALSE])
  /\ fetchPc' = "failed"
  /\ fetchResult' = NoResult
  /\ UNCHANGED <<impl, source, limit, offset, items, wasClipped, callVars, inputVars, runVars>>

NextFetch == PageResponse \/ PageFails

SpecFetch == InitFetch /\ [][NextFetch]_vars
\* every request issued is eventually answered or fails
SpecFetchFair == SpecFetch /\ WF_vars(NextFetch)

(***************************************************************************)
(* Snapshot locator applied to every sorted history                        *)
(***************************************************************************)
Snapshot(e) == [epoch |-> e, active_balance |-> e + 1, active_shares |-> 2]

\* the ascending sequence of the members of a set of epochs
RECURSIVE AscendingSeq(_)
AscendingSeq(S) ==
  IF S = {} THEN <<>>
  ELSE LET m == CHOOSE x \in S : \A y \in S : y <= x
       IN  Append(AscendingSeq(S \ {m}), m)

SortedHistories ==
  { [i \in 1..Cardinality(S) |-> Snapshot(AscendingSeq(S)[i])] : S \in SUBSET (1..MaxHistEpoch) }

InitLocate ==
  /\ call \in { [fn |-> "findHistoryEntryForEpoch", history |-> h, targetEpoch |-> t] :
                  h \in SortedHistories, t \in 0..(MaxHistEpoch + 1) }
  /\ ret = Pending
  /\ IdleFetch /\ IdleRun

Locate ==
  /\ call.fn = "findHistoryEntryForEpoch" /\ ret = Pending
  /\ ret' = Returned(findHistoryEntryForEpoch(call.history, call.targetEpoch))
  /\ UNCHANGED <<call, fetchVars, inputVars, runVars>>

SpecLocate == InitLocate /\ [][Locate]_vars

\* the locator called for two target epochs on the same history
InitLocateTwice ==
  /\ call \in { [fn |-> "locateTwice", history |-> h, e1 |-> a, e2 |-> b] :
                  h \in SortedHistories,
                  a \in 0..(MaxHistEpoch + 1), b \in 0..(MaxHistEpoch + 1) }
  /\ ret = Pending
  /\ IdleFetch /\ IdleRun

LocateTwice ==
  /\ call.fn = "locateTwice" /\ ret = Pending
  /\ ret' = Returned([first  |-> findHistoryEntryForEpoch(call.history, call.e1),
                      second |-> findHistoryEntryForEpoch(call.history, call.e2)])
  /\ UNCHANGED <<call, fetchVars, inputVars, runVars>>

SpecLocateTwice == InitLocateTwice /\ [][LocateTwice]_vars

(***************************************************************************)
(* Epoch sampler applied to every range                                    *)
(***************************************************************************)
InitSampler ==
  /\ call \in { [fn |-> "epochsToProcess", startEpoch |-> s, endEpoch |-> s + d, granularity |-> g] :
                  s \in 0..MaxStart, d \in 0..MaxRange, g \in {"month", "year"} }
  /\ ret = Pending
  /\ IdleFetch /\ IdleRun

Sample ==
  /\ call.fn = "epochsToProcess" /\ ret = Pending
  /\ ret' = Returned(EpochsToProcess(call.startEpoch, call.endEpoch, call.granularity))
  /\ UNCHANGED <<call, fetchVars, inputVars, runVars>>

SpecSampler == InitSampler /\ [][Sample]_vars

(***************************************************************************)
(* The rewards run: fetchStakingRewardsTest(address, year, granularity),   *)
(* called by main for "month" and then for "year" on the same index.       *)
(***************************************************************************)
ADDRESS == "oasis1qpnz"

\* address?.toLowerCase() || "": the index reports "V1" and "OASIS1QPNZ" in mixed case
normalizeAddress(address) ==
  CASE address = "V1" -> "v1"
    [] address = "V2" -> "v2"
    [] address = "OASIS1QPNZ" -> "oasis1qpnz"
    [] OTHER -> address

\* a zero active_shares replaced by the default 1, as || "1" does to a falsy value
calculateTotalValueZeroAsOne(userShares, historyEntry) ==
  IF historyEntry = Null THEN 0
  ELSE (userShares * historyEntry.active_balance)
         \div (IF historyEntry.active_shares = 0 THEN 1 ELSE historyEntry.active_shares)

\* the division done before the multiplication
calculateTotalValueDivideFirst(userShares, historyEntry) ==
  IF historyEntry = Null THEN 0
  ELSE IF historyEntry.active_shares = 0 THEN 0
  ELSE userShares * (historyEntry.active_balance \div historyEntry.active_shares)

calculateTotalValue(userShares, historyEntry) ==
  IF historyEntry = Null THEN 0
  ELSE IF historyEntry.active_shares = 0 THEN 0
  ELSE (userShares * historyEntry.active_balance) \div historyEntry.active_shares

\* the first occurrence of each member, in order (the key order of an object, a Set)
RECURSIVE Dedupe(_)
Dedupe(seq) ==
  IF seq = <<>> THEN <<>>
  ELSE LET front == Dedupe(SubSeq(seq, 1, Len(seq) - 1))
           x     == seq[Len(seq)]
       IN  IF \E i \in DOMAIN front : front[i] = x THEN front ELSE Append(front, x)

\* the ascending-epoch order of snapshots with unique epochs: history.sort(a.epoch - b.epoch)
RECURSIVE SortByEpoch(_)
SortByEpoch(S) ==
  IF S = {} THEN <<>>
  ELSE LET last == CHOOSE x \in S : \A y \in S : y.epoch <= x.epoch
       IN  Append(SortByEpoch(S \ {last}), last)

\* filter: the events of the owner with startEpoch < epoch <= endEpoch
IsRelevant(ev) ==
  /\ normalizeAddress(ev.owner) = normalizeAddress(ADDRESS)
  /\ ev.epoch > startEpoch /\ ev.epoch <= endEpoch
relevantAddEvents    == SelectSeq(nexus.addEvents, IsRelevant)
relevantDebondEvents == SelectSeq(nexus.debondEvents, IsRelevant)

\* currentSharesPerValidator: its keys in insertion order, and its values
currentKeys == Dedupe([i \in DOMAIN nexus.delegations |-> normalizeAddress(nexus.delegations[i].validator)])
IsCurrent(v) == \E i \in DOMAIN currentKeys : currentKeys[i] = v
currentSharesPerValidator(v) ==
  LET idx == { i \in DOMAIN nexus.delegations : normalizeAddress(nexus.delegations[i].validator) = v }
  IN  nexus.delegations[CHOOSE i \in idx : \A j \in idx : j <= i].shares

\* sharesPerValidator[validator] - shares, set to 0 when negative
ReverseAddUnclamped(shares, newShares) == shares - newShares
\* an Add that would take the shares below 0 is left out instead
ReverseAddIfCovered(shares, newShares) ==
  IF shares - newShares < 0 THEN shares ELSE shares - newShares
ReverseAdd(shares, newShares) ==
  IF shares - newShares < 0 THEN 0 ELSE shares - newShares

\* the two loops over the relevant events, for one validator
RECURSIVE ReverseAdds(_, _, _)
ReverseAdds(shares, events, v) ==
  IF events = <<>> THEN shares
  ELSE ReverseAdds(IF normalizeAddress(Head(events).escrow) = v
                     THEN ReverseAdd(shares, Head(events).shares) ELSE shares,
                   Tail(events), v)
RECURSIVE ReverseDebonds(_, _, _)
ReverseDebonds(shares, events, v) ==
  IF events = <<>> THEN shares
  ELSE ReverseDebonds(IF normalizeAddress(Head(events).escrow) = v
                        THEN shares + Head(events).shares ELSE shares,
                      Tail(events), v)

\* sharesPerValidator[v] || 0n after the reversal
sharesPerValidator(v) ==
  ReverseDebonds(
    ReverseAdds(IF IsCurrent(v) THEN currentSharesPerValidator(v) ELSE 0, relevantAddEvents, v),
    relevantDebondEvents, v)

Escrows(events) == [i \in DOMAIN events |-> normalizeAddress(events[i].escrow)]
IsPositive(v) == sharesPerValidator(v) > 0
NonEmpty(v) == v # ""

\* Array.from(validatorsWithActivity).filter(Boolean)
validators ==
  LET keys == Dedupe(currentKeys \o Escrows(relevantAddEvents) \o Escrows(relevantDebondEvents))
  IN  SelectSeq(Dedupe(SelectSeq(keys, IsPositive) \o currentKeys), NonEmpty)

\* what the history endpoint holds for a validator between two epochs
HistoryWindow(v, from, to) == { h \in nexus.history[v] : h.epoch >= from /\ h.epoch <= to }

\* the history fetched for the run (the script's paginatedFetch returns every
\* item of the window), sorted
validatorHistories(v) == SortByEpoch(HistoryWindow(v, Max(1, startEpoch - 100), endEpoch))

\* one request for the 21 epochs around targetEpoch (limit 50 holds them all)
fetchHistoryAtEpoch(v, targetEpoch) ==
  findHistoryEntryForEpoch(
    SortByEpoch(HistoryWindow(v, Max(1, targetEpoch - 10), targetEpoch + 10)), targetEpoch)

AsAdd(ev)    == [type |-> "add", validator |-> normalizeAddress(ev.escrow),
                 shares |-> ev.shares, epoch |-> ev.epoch]
AsDebond(ev) == [type |-> "debond", validator |-> normalizeAddress(ev.escrow),
                 shares |-> ev.shares, epoch |-> ev.epoch]

\* eventsByEpoch[e] || []: the Add events of epoch e, then its Debond events
eventsByEpoch(e) ==
  LET AtE(ev) == ev.epoch = e
      adds    == SelectSeq(relevantAddEvents, AtE)
      debonds == SelectSeq(relevantDebondEvents, AtE)
  IN  [i \in DOMAIN adds |-> AsAdd(adds[i])] \o [i \in DOMAIN debonds |-> AsDebond(debonds[i])]

\* the loop over the epochs of the period run downwards from the sample epoch
RECURSIVE EventsDownFrom(_, _)
EventsDownFrom(e, epoch) ==
  IF e > epoch THEN <<>> ELSE eventsByEpoch(epoch) \o EventsDownFrom(e, epoch - 1)
EventsBetweenDescending(e, epoch) == EventsDownFrom(e, epoch)

\* the loop started at lastProcessedEpoch itself: the closed period [previous sample, E]
RECURSIVE EventsFrom(_, _)
EventsFrom(e, epoch) ==
  IF e > epoch THEN <<>> ELSE eventsByEpoch(e) \o EventsFrom(e + 1, epoch)
EventsBetweenClosed(e, epoch) == EventsFrom(e - 1, epoch)

\* the events met by: for (e = lastProcessedEpoch + 1; e <= epoch; e++) for (ev of events)
RECURSIVE EventsBetween(_, _)
EventsBetween(e, epoch) ==
  IF e > epoch THEN <<>> ELSE eventsByEpoch(e) \o EventsBetween(e + 1, epoch)

epochsToProcess == EpochsToProcess(startEpoch, endEpoch, granularity)

\* epochTimestamps[epoch]: fetchEpochTimestamp returns null when a lookup fails
HasTimestamp(epoch) == epoch \notin nexus.failingEpochs

\* state.shares -= ev.shares, set to 0 when negative
DebondSharesUnclamped(shares, debondingShares) == shares - debondingShares
DebondShares(shares, debondingShares) ==
  IF shares - debondingShares < 0 THEN 0 ELSE shares - debondingShares

\* the shares follow the event but its value is not accumulated for the period
ApplyToStateSharesOnly(state, ev, historyEntry) ==
  IF ev.type = "add"
    THEN [state EXCEPT !.shares = @ + ev.shares]
    ELSE [state EXCEPT !.shares = DebondShares(@, ev.shares)]

\* the body of the loop over the events, for one event of a tracked validator
ApplyToState(state, ev, historyEntry) ==
  IF ev.type = "add"
    THEN [state EXCEPT !.shares = @ + ev.shares,
                       !.periodDelegationValue = @ + calculateTotalValue(ev.shares, historyEntry)]
    ELSE [state EXCEPT !.shares = DebondShares(@, ev.shares),
                       !.periodUndelegationValue = @ + calculateTotalValue(ev.shares, historyEntry)]

\* lines 127-289: fetch, filter, reconstruct the start shares, find the validators,
\* fetch the histories and the timestamps, seed the state
Prepare ==
  /\ runPc = "start"
  /\ HasTimestamp(startEpoch)
  /\ validatorState' =
       [v \in { validators[i] : i \in DOMAIN validators } |->
          [shares |-> sharesPerValidator(v),
           prevTotalValue |-> calculateTotalValue(sharesPerValidator(v),
                                                  fetchHistoryAtEpoch(v, startEpoch)),
           periodDelegationValue |-> 0,
           periodUndelegationValue |-> 0]]
  /\ results' = <<>>
  /\ applied' = <<>>
  /\ lastProcessedEpoch' = startEpoch
  /\ sampleIdx' = 1
  /\ pending' = <<>>
  /\ emitIdx' = 0
  /\ runPc' = "sample"
  /\ UNCHANGED <<granularity, monthlyResults, yearlyResults, inputVars, callVars, fetchVars>>

\* lines 261-262: the lookups of startEpoch are not caught; main's catch logs the error
PrepareFails ==
  /\ runPc = "start"
  /\ ~HasTimestamp(startEpoch)
  /\ runPc' = "failed"
  /\ UNCHANGED <<granularity, validatorState, lastProcessedEpoch, sampleIdx, pending, emitIdx,
                 results, applied, monthlyResults, yearlyResults, inputVars, callVars, fetchVars>>

\* if (!timestamp) continue
SkipSample ==
  /\ runPc = "sample"
  /\ sampleIdx <= Len(epochsToProcess)
  /\ ~HasTimestamp(epochsToProcess[sampleIdx])
  /\ sampleIdx' = sampleIdx + 1
  /\ UNCHANGED <<granularity, runPc, validatorState, lastProcessedEpoch, pending, emitIdx,
                 results, applied, monthlyResults, yearlyResults, inputVars, callVars, fetchVars>>

\* the sample has a timestamp: its events are the ones of (lastProcessedEpoch, epoch]
NextSample ==
  /\ runPc = "sample"
  /\ sampleIdx <= Len(epochsToProcess)
  /\ HasTimestamp(epochsToProcess[sampleIdx])
  /\ pending' = EventsBetween(lastProcessedEpoch + 1, epochsToProcess[sampleIdx])
  /\ runPc' = "apply"
  /\ UNCHANGED <<granularity, validatorState, lastProcessedEpoch, sampleIdx, emitIdx,
                 results, applied, monthlyResults, yearlyResults, inputVars, callVars, fetchVars>>

\* lines 298-315: one event
ApplyEvent ==
  /\ runPc = "apply"
  /\ pending # <<>>
  /\ LET ev      == Head(pending)
         tracked == ev.validator \in DOMAIN validatorState
         entry   == findHistoryEntryForEpoch(validatorHistories(ev.validator), ev.epoch)
         after   == IF tracked
                      THEN [validatorState EXCEPT ![ev.validator] = ApplyToState(@, ev, entry)]
                      ELSE validatorState
     IN  /\ validatorState' = after
         /\ applied' = Append(applied,
              [ev |-> ev, sample |-> epochsToProcess[sampleIdx], tracked |-> tracked,
               before |-> IF tracked THEN validatorState[ev.validator].shares ELSE 0,
               after  |-> IF tracked THEN after[ev.validator].shares ELSE 0])
  /\ pending' = Tail(pending)
  /\ UNCHANGED <<granularity, runPc, lastProcessedEpoch, sampleIdx, emitIdx,
                 results, monthlyResults, yearlyResults, inputVars, callVars, fetchVars>>

\* line 318, and the loop over the validators begins
EventsApplied ==
  /\ runPc = "apply"
  /\ pending = <<>>
  /\ lastProcessedEpoch' = epochsToProcess[sampleIdx]
  /\ IF validators = <<>>
       THEN runPc' = "sample" /\ sampleIdx' = sampleIdx + 1 /\ emitIdx' = 0
       ELSE runPc' = "emit" /\ emitIdx' = 1 /\ UNCHANGED sampleIdx
  /\ UNCHANGED <<granularity, validatorState, pending, results, applied,
                 monthlyResults, yearlyResults, inputVars, callVars, fetchVars>>

\* the next validator of the loop, or the next sample after the last validator
NextValidator ==
  IF emitIdx = Len(validators)
    THEN runPc' = "sample" /\ sampleIdx' = sampleIdx + 1 /\ emitIdx' = 0
    ELSE emitIdx' = emitIdx + 1 /\ UNCHANGED <<runPc, sampleIdx>>

\* the first snapshot of the history taken when none is at or before the sample epoch
EmitEntryOrFirst ==
  LET history == validatorHistories(validators[emitIdx])
      located == findHistoryEntryForEpoch(history, epochsToProcess[sampleIdx])
  IN  IF located = Null /\ history # <<>> THEN history[1] ELSE located
\* the history of the first validator of the loop used for every validator
EmitEntryOfFirstValidator ==
  findHistoryEntryForEpoch(validatorHistories(validators[1]), epochsToProcess[sampleIdx])
EmitEntry == findHistoryEntryForEpoch(validatorHistories(validators[emitIdx]), epochsToProcess[sampleIdx])
\* the BigInt fields compared with the number 0: 0n === 0 is false
IsExitedNever(state) == FALSE
IsExited(state) == state.shares = 0 /\ state.prevTotalValue = 0

\* if (state.shares === 0n && state.prevTotalValue === 0n) continue
SkipExited ==
  /\ runPc = "emit"
  /\ IsExited(validatorState[validators[emitIdx]])
  /\ NextValidator
  /\ UNCHANGED <<granularity, validatorState, lastProcessedEpoch, pending, results, applied,
                 monthlyResults, yearlyResults, inputVars, callVars, fetchVars>>

\* if (!historyEntry) continue
SkipNoSnapshot ==
  /\ runPc = "emit"
  /\ ~IsExited(validatorState[validators[emitIdx]])
  /\ EmitEntry = Null
  /\ NextValidator
  /\ UNCHANGED <<granularity, validatorState, lastProcessedEpoch, pending, results, applied,
                 monthlyResults, yearlyResults, inputVars, callVars, fetchVars>>

\* lines 329-358: the row is pushed and the state starts the next period
OutputRow ==
  /\ runPc = "emit"
  /\ ~IsExited(validatorState[validators[emitIdx]])
  /\ EmitEntry # Null
  /\ LET validator  == validators[emitIdx]
         state      == validatorState[validator]
         totalValue == calculateTotalValue(state.shares, EmitEntry)
         earned     == totalValue - state.prevTotalValue - state.periodDelegationValue
                         + state.periodUndelegationValue
     IN  /\ results' = Append(results,
              [start_epoch |-> startEpoch, end_epoch |-> epochsToProcess[sampleIdx],
               validator |-> validator, shares |-> state.shares,
               delegation_value |-> totalValue, rewards |-> earned,
               _prevTotalValue |-> state.prevTotalValue, _totalValue |-> totalValue,
               _periodDelegationValue |-> state.periodDelegationValue,
               _periodUndelegationValue |-> state.periodUndelegationValue])
         /\ validatorState' = [validatorState EXCEPT ![validator] =
              [@ EXCEPT !.prevTotalValue = totalValue,
                        !.periodDelegationValue = 0,
                        !.periodUndelegationValue = 0]]
  /\ NextValidator
  /\ UNCHANGED <<granularity, lastProcessedEpoch, pending, applied,
                 monthlyResults, yearlyResults, inputVars, callVars, fetchVars>>

\* main: the "month" run returned, the "year" run starts
ReturnMonthly ==
  /\ runPc = "sample"
  /\ sampleIdx > Len(epochsToProcess)
  /\ granularity = "month"
  /\ monthlyResults' = results
  /\ granularity' = "year"
  /\ runPc' = "start"
  /\ UNCHANGED <<validatorState, lastProcessedEpoch, sampleIdx, pending, emitIdx, results,
                 applied, yearlyResults, inputVars, callVars, fetchVars>>

\* main: the "year" run returned, the totals are compared
ReturnYearly ==
  /\ runPc = "sample"
  /\ sampleIdx > Len(epochsToProcess)
  /\ granularity = "year"
  /\ yearlyResults' = results
  /\ runPc' = "done"
  /\ UNCHANGED <<granularity, validatorState, lastProcessedEpoch, sampleIdx, pending, emitIdx,
                 results, applied, monthlyResults, inputVars, callVars, fetchVars>>

NextRun ==
  \/ Prepare \/ PrepareFails
  \/ SkipSample \/ NextSample
  \/ ApplyEvent \/ EventsApplied
  \/ SkipExited \/ SkipNoSnapshot \/ OutputRow
  \/ ReturnMonthly \/ ReturnYearly

(***************************************************************************)
(* The indexes the run is checked on                                       *)
(***************************************************************************)
StartEpoch == 12      \* startEpoch of the checked year
Span       == 2       \* endEpoch - startEpoch

Validators == {"v1", "v2"}
ShareAmounts == {1, 2}
RangeEpochs == (StartEpoch + 1)..(StartEpoch + Span)
YearEpochs  == StartEpoch..(StartEpoch + Span)

\* the pool of a validator at an epoch: the share price of v1 goes 1, 3/2, 2, ...
PoolAt(v, e) ==
  [epoch |-> e,
   active_balance |-> IF v = "v1" THEN 2 + (e - StartEpoch) ELSE 3 + 2 * (e - StartEpoch),
   active_shares |-> 2]

Event(owner, escrow, epoch, shares) ==
  [owner |-> owner, escrow |-> escrow, epoch |-> epoch, shares |-> shares]

\* events of the owner in (startEpoch, endEpoch]: on v1 at any epoch, on v2 at the first
RangeEvents ==
  { Event("OASIS1QPNZ", "v1", e, n) : e \in RangeEpochs, n \in ShareAmounts }
    \cup { Event(ADDRESS, "v2", StartEpoch + 1, 1) }
\* at most one Add event; one choice is an event at startEpoch itself
AddLists ==
  {<<>>} \cup { <<ev>> : ev \in RangeEvents \cup {Event(ADDRESS, "v1", StartEpoch, 1)} }
\* at most one Debond event; one choice is an event of another owner
DebondLists ==
  {<<>>} \cup { <<ev>> : ev \in RangeEvents \cup {Event("other", "v1", StartEpoch + 1, 1)} }

\* the delegations of the account now: v1 (reported as "V1") with 0 or 2 shares or
\* none, v2 with 1 share or none
DelegationLists ==
  { a \o b : a \in {<<>>} \cup { <<[validator |-> "V1", shares |-> n]>> : n \in {0, 2} },
             b \in {<<>>, <<[validator |-> "v2", shares |-> 1]>>} }

\* the snapshots of v1 are any subset of the epochs startEpoch..endEpoch; v2 has all
HistoryMaps ==
  { [v \in Validators |-> IF v = "v1" THEN { PoolAt(v, e) : e \in S }
                          ELSE { PoolAt(v, e) : e \in YearEpochs }] :
      S \in SUBSET YearEpochs }

\* at most one epoch of startEpoch..endEpoch whose timestamp lookup fails
FailingSets == {{}} \cup { {e} : e \in YearEpochs }

InitRun ==
  /\ nexus \in [addEvents : AddLists, debondEvents : DebondLists, delegations : DelegationLists,
                history : HistoryMaps, failingEpochs : FailingSets]
  /\ startEpoch = StartEpoch
  /\ endEpoch = StartEpoch + Span
  /\ granularity = "month" /\ runPc = "start"
  /\ validatorState = NoStates /\ lastProcessedEpoch = 0
  /\ sampleIdx = 0 /\ pending = <<>> /\ emitIdx = 0
  /\ results = <<>> /\ applied = <<>>
  /\ monthlyResults = <<>> /\ yearlyResults = <<>>
  /\ IdleCall /\ IdleFetch

SpecRun == InitRun /\ [][NextRun]_vars

(***************************************************************************)
(* The body of the event loop applied to any state, event and snapshot     *)
(***************************************************************************)
MaxStateShares == 3   \* shares of the state and of the event are in 0..MaxStateShares

InitApplyEvent ==
  /\ call \in { [fn |-> "applyEvent",
                 state |-> [shares |-> n, prevTotalValue |-> 0,
                            periodDelegationValue |-> 0, periodUndelegationValue |-> 0],
                 ev |-> [type |-> t, validator |-> "v1", shares |-> m, epoch |-> StartEpoch + 1],
                 historyEntry |-> h] :
                  n \in 0..MaxStateShares, m \in 0..MaxStateShares, t \in {"add", "debond"},
                  h \in {Null, PoolAt("v1", StartEpoch + 1)} }
  /\ ret = Pending
  /\ IdleFetch /\ IdleRun

ApplyEventCall ==
  /\ call.fn = "applyEvent" /\ ret = Pending
  /\ ret' = Returned(ApplyToState(call.state, call.ev, call.historyEntry))
  /\ UNCHANGED <<call, fetchVars, inputVars, runVars>>

\* the runs of main, and the loop body on its own
SpecAccrual == (InitRun \/ InitApplyEvent) /\ [][NextRun \/ ApplyEventCall]_vars

(***************************************************************************)
(* One call of fetchStakingRewardsTest with its paginated fetches: the Add *)
(* events, the Debond events, the current delegations and the history of   *)
(* each validator, each fetched by the script's paginatedFetch (the page   *)
(* size stands for its default limit); then the run, then the return.      *)
(***************************************************************************)
\* what each paginatedFetch of the run is served from, in the order of the calls
RunSources ==
  <<nexus.addEvents, nexus.debondEvents, nexus.delegations>>
    \o [i \in DOMAIN validators |-> validatorHistories(validators[i])]

\* return results
RunReturn(rows) == [rows |-> rows]

\* a paginatedFetch of the run returned { items }: the next one is called, or the
\* run goes on after the last
NextEndpoint ==
  /\ call.fn = "fetchStakingRewardsTest"
  /\ runPc = "fetching" /\ fetchPc = "returned"
  /\ IF call.fetching < Len(RunSources)
       THEN /\ call' = [call EXCEPT !.fetching = @ + 1]
            /\ source' = RunSources[call.fetching + 1]
            /\ offset' = 0 /\ items' = <<>>
            /\ fetchPc' = "request" /\ fetchResult' = NoResult
            /\ UNCHANGED runPc
       ELSE /\ runPc' = "start"
            /\ UNCHANGED <<call, source, offset, items, fetchPc, fetchResult>>
  /\ UNCHANGED <<ret, impl, limit, wasClipped, responses, inputVars,
                 granularity, validatorState, lastProcessedEpoch, sampleIdx, pending, emitIdx,
                 results, applied, monthlyResults, yearlyResults>>

\* after the last sample epoch the rows are returned to the caller
RunReturns ==
  /\ call.fn = "fetchStakingRewardsTest"
  /\ runPc = "sample"
  /\ sampleIdx > Len(epochsToProcess)
  /\ ret' = Returned(RunReturn(results))
  /\ runPc' = "returned"
  /\ UNCHANGED <<call, fetchVars, inputVars, granularity, validatorState, lastProcessedEpoch,
                 sampleIdx, pending, emitIdx, results, applied, monthlyResults, yearlyResults>>

\* the indexes of the call: events and delegations on v1 only
FetchedIndexes ==
  [addEvents : {<<>>, <<Event(ADDRESS, "v1", StartEpoch + 1, 1)>>},
   debondEvents : {<<>>, <<Event(ADDRESS, "v1", StartEpoch + Span, 1)>>},
   delegations : {<<>>} \cup { <<[validator |-> "V1", shares |-> n]>> : n \in {0, 2} },
   history : { [v \in Validators |-> { PoolAt(v, e) : e \in S }] : S \in {{}, YearEpochs} },
   failingEpochs : {{}, {StartEpoch}, {StartEpoch + 1}}]

InitFetchedRun ==
  /\ nexus \in FetchedIndexes
  /\ startEpoch = StartEpoch
  /\ endEpoch = StartEpoch + Span
  /\ granularity \in {"month", "year"}
  /\ call = [fn |-> "fetchStakingRewardsTest", fetching |-> 1]
  /\ ret = Pending
  /\ impl = "script" /\ source = nexus.addEvents /\ limit = MaxLimit
  /\ offset = 0 /\ items = <<>> /\ wasClipped = FALSE
  /\ fetchPc = "request" /\ responses = <<>> /\ fetchResult = NoResult
  /\ runPc = "fetching"
  /\ validatorState = NoStates /\ lastProcessedEpoch = 0
  /\ sampleIdx = 0 /\ pending = <<>> /\ emitIdx = 0
  /\ results = <<>> /\ applied = <<>>
  /\ monthlyResults = <<>> /\ yearlyResults = <<>>

NextFetchedRun ==
  \/ PageResponse \/ PageFails \/ NextEndpoint
  \/ Prepare \/ PrepareFails
  \/ SkipSample \/ NextSample
  \/ ApplyEvent \/ EventsApplied
  \/ SkipExited \/ SkipNoSnapshot \/ OutputRow
  \/ RunReturns

SpecFetchedRun == InitFetchedRun /\ [][NextFetchedRun]_vars

(***************************************************************************)
(* toRose(baseUnits, extraDecimals).  A string is the sequence of its      *)
(* characters; baseUnits is a BigInt, so toString() is its exact decimal   *)
(* digits with a leading "-" when negative.                                *)
(***************************************************************************)
ROSE_DECIMALS == 9

DigitChars == <<"0", "1", "2", "3", "4", "5", "6", "7", "8", "9">>

\* the decimal digits of n >= 0, most significant first
RECURSIVE DigitsOf(_)
DigitsOf(n) ==
  IF n < 10 THEN <<DigitChars[n + 1]>>
  ELSE Append(DigitsOf(n \div 10), DigitChars[(n % 10) + 1])

\* baseUnits.toString()
toString(n) == IF n < 0 THEN <<"-">> \o DigitsOf(-n) ELSE DigitsOf(n)

\* str.padStart(targetLength, "0")
padStartNone(str, targetLength) == str
RECURSIVE padStart(_, _)
padStart(str, targetLength) ==
  IF Len(str) >= targetLength THEN str ELSE padStart(<<"0">> \o str, targetLength)

\* str.slice(0, -n) and str.slice(-n), for n >= 1
SliceBeforeLast(str, n) == IF n >= Len(str) THEN <<>> ELSE SubSeq(str, 1, Len(str) - n)
SliceLast(str, n) == IF n >= Len(str) THEN str ELSE SubSeq(str, Len(str) - n + 1, Len(str))

\* str.replace(/0+$/, "")
RECURSIVE StripTrailingZeros(_)
StripTrailingZeros(str) ==
  IF str # <<>> /\ str[Len(str)] = "0"
    THEN StripTrailingZeros(SubSeq(str, 1, Len(str) - 1))
    ELSE str

\* x || "0" on a string: the empty string is falsy
OrZero(str) == IF str = <<>> THEN <<"0">> ELSE str

toRose(baseUnits, extraDecimals) ==
  LET totalDecimals == ROSE_DECIMALS + extraDecimals
      str        == toString(baseUnits)
      isNegative == str[1] = "-"
      absStr     == IF isNegative THEN Tail(str) ELSE str
      padded     == padStart(absStr, totalDecimals + 1)
      intPart    == OrZero(SliceBeforeLast(padded, totalDecimals))
      decPart    == OrZero(StripTrailingZeros(SliceLast(padded, totalDecimals)))
      result     == IF decPart = <<"0">> THEN intPart ELSE intPart \o <<".">> \o decPart
  IN  IF isNegative THEN <<"-">> \o result ELSE result

MaxExtraDecimals == 2   \* extraDecimals in 0..MaxExtraDecimals
MaxMantissa      == 20  \* the fractional part of an amount is m * 10^k, m in 0..MaxMantissa
MaxExponent      == 6   \*   and k in 0..MaxExponent

RECURSIVE Pow10(_)
Pow10(k) == IF k = 0 THEN 1 ELSE 10 * Pow10(k - 1)

\* amounts of either sign below and above one ROSE (10^9 base units)
Amounts ==
  { sign * (whole * Pow10(ROSE_DECIMALS) + m * Pow10(k)) :
      sign \in {1, -1}, whole \in {0, 1}, m \in 0..MaxMantissa, k \in 0..MaxExponent }

InitFormat ==
  /\ call \in { [fn |-> "toRose", baseUnits |-> a, extraDecimals |-> x] :
                  a \in Amounts, x \in 0..MaxExtraDecimals }
  /\ ret = Pending
  /\ IdleFetch /\ IdleRun

Format ==
  /\ call.fn = "toRose" /\ ret = Pending
  /\ ret' = Returned(toRose(call.baseUnits, call.extraDecimals))
  /\ UNCHANGED <<call, fetchVars, inputVars, runVars>>

SpecFormat == InitFormat /\ [][Format]_vars

(***************************************************************************)
(* The runs of main on indexes whose validator history reaches back before *)
(* startEpoch: v1 may have a snapshot at epoch 1, at startEpoch - 1 and at  *)
(* startEpoch + 1.                                                         *)
(***************************************************************************)
\* before startEpoch the pool of a validator holds 2 base units for its 2 shares
PoolSince(v, e) ==
  IF e < StartEpoch THEN [epoch |-> e, active_balance |-> 2, active_shares |-> 2]
  ELSE PoolAt(v, e)

EarlyHistoryMaps ==
  { [v \in Validators |-> IF v = "v1" THEN { PoolSince(v, e) : e \in S } ELSE {}] :
      S \in SUBSET {1, StartEpoch - 1, StartEpoch + 1} }

InitBaseline ==
  /\ nexus \in [addEvents : {<<>>, <<Event(ADDRESS, "v1", StartEpoch + 1, 1)>>},
                debondEvents : {<<>>},
                delegations : {<<>>} \cup { <<[validator |-> "V1", shares |-> n]>> : n \in {0, 2} },
                history : EarlyHistoryMaps,
                failingEpochs : {{}, {StartEpoch}, {StartEpoch + 1}}]
  /\ startEpoch = StartEpoch
  /\ endEpoch = StartEpoch + Span
  /\ granularity = "month" /\ runPc = "start"
  /\ validatorState = NoStates /\ lastProcessedEpoch = 0
  /\ sampleIdx = 0 /\ pending = <<>> /\ emitIdx = 0
  /\ results = <<>> /\ applied = <<>>
  /\ monthlyResults = <<>> /\ yearlyResults = <<>>
  /\ IdleCall /\ IdleFetch

SpecBaseline == InitBaseline /\ [][NextRun]_vars

(***************************************************************************)
(* calculateTotalValue applied to every share count and snapshot           *)
(***************************************************************************)
MaxPool == 4          \* active_balance and active_shares of a snapshot are in 0..MaxPool

InitTotalValue ==
  /\ call \in { [fn |-> "calculateTotalValue", userShares |-> u, historyEntry |-> h] :
                  u \in 0..MaxStateShares,
                  h \in {Null} \cup { [epoch |-> StartEpoch, active_balance |-> b, active_shares |-> a] :
                                        b \in 0..MaxPool, a \in 0..MaxPool } }
  /\ ret = Pending
  /\ IdleFetch /\ IdleRun

TotalValue ==
  /\ call.fn = "calculateTotalValue" /\ ret = Pending
  /\ ret' = Returned(calculateTotalValue(call.userShares, call.historyEntry))
  /\ UNCHANGED <<call, fetchVars, inputVars, runVars>>

SpecTotalValue == InitTotalValue /\ [][TotalValue]_vars

(***************************************************************************)
(* The preparation of a run on indexes that list several Add and Debond    *)
(* events, in every order                                                  *)
(***************************************************************************)
MaxListed == 2        \* the Add list and the Debond list hold 0..MaxListed events each

\* the sequences of at most n members of S
RECURSIVE SeqsUpTo(_, _)
SeqsUpTo(S, n) ==
  IF n = 0 THEN {<<>>}
  ELSE LET shorter == SeqsUpTo(S, n - 1)
       IN  shorter \cup { Append(q, x) : q \in { r \in shorter : Len(r) = n - 1 }, x \in S }

ListedAdds ==
  { Event("OASIS1QPNZ", "v1", StartEpoch + 1, 1), Event(ADDRESS, "V1", StartEpoch + Span, 2),
    Event(ADDRESS, "v2", StartEpoch + 1, 1), Event(ADDRESS, "v1", StartEpoch, 1) }
ListedDebonds ==
  { Event(ADDRESS, "v1", StartEpoch + 1, 1), Event("OTHER", "v1", StartEpoch + 1, 2) }

InitReorder ==
  /\ nexus \in [addEvents : SeqsUpTo(ListedAdds, MaxListed),
                debondEvents : SeqsUpTo(ListedDebonds, MaxListed),
                delegations : DelegationLists,
                history : { [v \in Validators |-> { PoolAt(v, e) : e \in YearEpochs }] },
                failingEpochs : {{}, {StartEpoch}}]
  /\ startEpoch = StartEpoch
  /\ endEpoch = StartEpoch + Span
  /\ granularity = "month" /\ runPc = "start"
  /\ validatorState = NoStates /\ lastProcessedEpoch = 0
  /\ sampleIdx = 0 /\ pending = <<>> /\ emitIdx = 0
  /\ results = <<>> /\ applied = <<>>
  /\ monthlyResults = <<>> /\ yearlyResults = <<>>
  /\ IdleCall /\ IdleFetch

SpecReorder == InitReorder /\ [][Prepare \/ PrepareFails]_vars

(***************************************************************************)
(* fetchStakingRewardsTest called twice with the same arguments, the index *)
(* having changed between the two calls: the second index has the same     *)
(* timestamps and the same history of v1, and any events, delegations and  *)
(* history of v2.                                                          *)
(***************************************************************************)
\* the events of a validator, in the order the run meets them
EventsOf(v) ==
  LET OfV(ev) == ev.validator = v
  IN  SelectSeq(EventsBetween(startEpoch + 1, endEpoch), OfV)

ComparedIndexes ==
  [addEvents : { <<>>, <<Event(ADDRESS, "v1", StartEpoch + Span, 2)>>,
                 <<Event(ADDRESS, "v2", StartEpoch + 1, 1)>>,
                 <<Event(ADDRESS, "v2", StartEpoch + 1, 1), Event(ADDRESS, "v1", StartEpoch + Span, 2)>> },
   debondEvents : { <<>>, <<Event(ADDRESS, "v2", StartEpoch + 1, 1)>> },
   delegations : { a \o b : a \in {<<>>, <<[validator |-> "V1", shares |-> 2]>>},
                            b \in {<<>>, <<[validator |-> "v2", shares |-> 1]>>} },
   history : { [v \in Validators |-> IF v = "v1" THEN { PoolAt(v, e) : e \in YearEpochs }
                                     ELSE { PoolAt(v, e) : e \in S }] : S \in {{}, YearEpochs} },
   failingEpochs : {{}, {StartEpoch}, {StartEpoch + 1}}]

InitCompare ==
  /\ nexus \in ComparedIndexes
  /\ startEpoch = StartEpoch
  /\ endEpoch = StartEpoch + Span
  /\ granularity = "month" /\ runPc = "start"
  /\ call = [fn |-> "compare", run |-> 1]
  /\ ret = Pending
  /\ validatorState = NoStates /\ lastProcessedEpoch = 0
  /\ sampleIdx = 0 /\ pending = <<>> /\ emitIdx = 0
  /\ results = <<>> /\ applied = <<>>
  /\ monthlyResults = <<>> /\ yearlyResults = <<>>
  /\ IdleFetch

\* the first call returns its rows; the second call is made on the changed index
RunAgain ==
  /\ call.fn = "compare" /\ call.run = 1
  /\ runPc = "sample"
  /\ sampleIdx > Len(epochsToProcess)
  /\ ret' = Returned(RunReturn(results))
  /\ call' = [fn |-> "compare", run |-> 2,
              shares  |-> [v \in Validators |-> sharesPerValidator(v)],
              current |-> [v \in Validators |-> IsCurrent(v)],
              events  |-> [v \in Validators |-> EventsOf(v)],
              history |-> nexus.history,
              failingEpochs |-> nexus.failingEpochs]
  /\ nexus' \in { n \in ComparedIndexes : /\ n.failingEpochs = nexus.failingEpochs
                                          /\ n.history["v1"] = nexus.history["v1"] }
  /\ runPc' = "start"
  /\ UNCHANGED <<startEpoch, endEpoch, fetchVars, granularity, validatorState,
                 lastProcessedEpoch, sampleIdx, pending, emitIdx, results, applied,
                 monthlyResults, yearlyResults>>

NextCompare ==
  \/ Prepare \/ PrepareFails
  \/ SkipSample \/ NextSample
  \/ ApplyEvent \/ EventsApplied
  \/ SkipExited \/ SkipNoSnapshot \/ OutputRow
  \/ RunAgain

SpecCompare == InitCompare /\ [][NextCompare]_vars

(***************************************************************************)
(* Properties                                                              *)
(***************************************************************************)
LocateDone == call.fn = "findHistoryEntryForEpoch" /\ ret.done
AtOrBefore(h, t) == { i \in 1..Len(h) : h[i].epoch <= t }

\* C2: on a history sorted ascending with unique epochs, findHistoryEntryForEpoch
\* returns the entry with the greatest epoch <= targetEpoch, and null exactly when
\* the history is empty or targetEpoch is smaller than the first entry's epoch.
LocateReturnsGreatestAtOrBefore ==
  LocateDone =>
    LET h == call.history
        t == call.targetEpoch
    IN  /\ (ret.value = Null) <=> (Len(h) = 0 \/ t < h[1].epoch)
        /\ (ret.value = Null) <=> (AtOrBefore(h, t) = {})
        /\ AtOrBefore(h, t) # {} =>
             \E i \in AtOrBefore(h, t) :
               /\ ret.value = h[i]
               /\ \A j \in AtOrBefore(h, t) : h[j].epoch <= h[i].epoch

\* a history of three or more entries, searched for an epoch that falls in a gap
\* strictly inside it
LocateInsideGap ==
  /\ LocateDone
  /\ Len(call.history) >= 3
  /\ ret.value # Null
  /\ ret.value.epoch < call.targetEpoch
  /\ ret.value # call.history[1]
  /\ ret.value # call.history[Len(call.history)]

FetchRequestFailed == \E i \in DOMAIN responses : ~responses[i].ok
FetchClippedSeen   == \E i \in DOMAIN responses : responses[i].ok /\ responses[i].clipped
ShortPageSeen      == \E i \in DOMAIN responses : responses[i].ok /\ responses[i].len < limit

\* C5: paginatedFetch returns all the items of the source, in source order,
\* whatever total_count and is_total_count_clipped the source reports.
FetchRetrievesAll ==
  fetchPc = "returned" => fetchResult.items = source

\* C6: with limit >= 1 no request is issued after the first page that has fewer
\* than limit items, and the call ends (returns or fails) after finitely many requests.
FetchTerminates ==
  /\ [][ShortPageSeen => responses' = responses]_vars
  /\ <>(fetchPc \in {"returned", "failed"})

\* a call that returned after a full page and a last page short but not empty
FetchEndsOnShortPage ==
  /\ fetchPc = "returned"
  /\ Len(responses) >= 2
  /\ responses[Len(responses)].len >= 1
  /\ responses[Len(responses)].len < limit

\* C7: the wasClipped of paginatedFetch (src/utils.js) is true if and only if at
\* least one page response of the call reported is_total_count_clipped; a later
\* page never resets it.
ClippedSignalExact ==
  impl = "utils" =>
    /\ wasClipped <=> FetchClippedSeen
    /\ fetchPc = "returned" => fetchResult.wasClipped = wasClipped

\* a call that returned wasClipped although its last page was not reported clipped
ClippedOnEarlierPage ==
  /\ impl = "utils" /\ fetchPc = "returned"
  /\ Len(responses) >= 2
  /\ responses[1].clipped
  /\ ~responses[Len(responses)].clipped
  /\ fetchResult.wasClipped

\* C8: if any page request fails the call fails and returns no items, however many
\* pages were fetched before; a call that returns had no failed request.
FetchFailsWhole ==
  /\ FetchRequestFailed => (fetchPc = "failed" /\ fetchResult = NoResult)
  /\ fetchPc = "returned" => ~FetchRequestFailed

\* a request that fails after two pages were fetched successfully
FetchFailsAfterPages ==
  /\ fetchPc = "failed"
  /\ Len(responses) >= 3
  /\ Len(items) >= 2

SamplerDone == call.fn = "epochsToProcess" /\ ret.done
IsAscending(seq) == \A i \in 1..(Len(seq) - 1) : seq[i] < seq[i + 1]

\* the month samples as the contract states them
ContractMonthSamples(s, e) ==
  LET step    == Max(1, (e - s + 1) \div 12)
      ks      == { k \in 1..(e - s) : s + k * step <= e }
      n       == Cardinality(ks)
      stepped == [k \in 1..n |-> s + k * step]
  IN  IF n = 0 \/ stepped[n] # e THEN [k \in 1..(n + 1) |-> IF k <= n THEN stepped[k] ELSE e]
      ELSE stepped

\* C9: for startEpoch <= endEpoch, "year" yields exactly [endEpoch]; "month" yields
\* startEpoch + k*step (k = 1, 2, ...) up to endEpoch with
\* step = max(1, floor((endEpoch - startEpoch + 1) / 12)), followed by endEpoch if the
\* last of them is not endEpoch; the sequence is strictly ascending and ends at endEpoch.
SamplerMatchesContract ==
  SamplerDone =>
    LET s   == call.startEpoch
        e   == call.endEpoch
        out == ret.value
    IN  /\ call.granularity = "year" => out = <<e>>
        /\ call.granularity = "month" =>
             /\ Len(out) = Len(ContractMonthSamples(s, e))
             /\ \A i \in 1..Len(out) : out[i] = ContractMonthSamples(s, e)[i]
        /\ IsAscending(out)
        /\ Len(out) >= 1 /\ out[Len(out)] = e

\* a month sampling with a step of two or more whose stepped epochs miss endEpoch
SamplerForcesEnd ==
  /\ SamplerDone /\ call.granularity = "month"
  /\ Len(ret.value) >= 3
  /\ ret.value[2] - ret.value[1] >= 2
  /\ ret.value[Len(ret.value)] - ret.value[Len(ret.value) - 1] < ret.value[2] - ret.value[1]

\* C10 as stated: for every startEpoch <= endEpoch and both granularities every
\* sample epoch e satisfies startEpoch < e <= endEpoch.
SamplesAfterStartAlways ==
  SamplerDone =>
    \A i \in 1..Len(ret.value) :
      call.startEpoch < ret.value[i] /\ ret.value[i] <= call.endEpoch

\* C10 amended: for every startEpoch < endEpoch and both granularities every sample
\* epoch e satisfies startEpoch < e <= endEpoch.
SamplesAfterStart ==
  (SamplerDone /\ call.startEpoch < call.endEpoch) =>
    \A i \in 1..Len(ret.value) :
      call.startEpoch < ret.value[i] /\ ret.value[i] <= call.endEpoch

\* a month sampling of a range of two epochs: the step is 1 and the first sample is
\* startEpoch + 1
SamplerStartsAfterStart ==
  /\ SamplerDone /\ call.granularity = "month"
  /\ call.endEpoch = call.startEpoch + 1
  /\ ret.value[1] = call.startEpoch + 1

RECURSIVE SumRewards(_, _)
SumRewards(rows, v) ==
  IF rows = <<>> THEN 0
  ELSE (IF Head(rows).validator = v THEN Head(rows).rewards ELSE 0) + SumRewards(Tail(rows), v)

\* C1: for every validator the sum of the rewards of the rows of the "month" run
\* equals the reward of the row of the "year" run over the same index (a run that
\* emits no row counts as 0); stated for the runs in which every timestamp is known.
MonthlySumEqualsYearly ==
  (runPc = "done" /\ nexus.failingEpochs = {}) =>
    \A v \in Validators : SumRewards(monthlyResults, v) = SumRewards(yearlyResults, v)

ApplyDone == call.fn = "applyEvent" /\ ret.done

\* C3: the shares of every validator are >= 0 in every state of a run (after the
\* reconstruction and after every applied event), and a Debond whose debondingShares
\* exceeds the current shares leaves the shares equal to 0.
SharesNeverNegative ==
  /\ \A v \in DOMAIN validatorState : validatorState[v].shares >= 0
  /\ \A i \in DOMAIN applied :
       (applied[i].tracked /\ applied[i].ev.type = "debond"
          /\ applied[i].ev.shares > applied[i].before) => applied[i].after = 0
  /\ ApplyDone =>
       /\ ret.value.shares >= 0
       /\ (call.ev.type = "debond" /\ call.ev.shares > call.state.shares) => ret.value.shares = 0

\* a Debond of more shares than the state holds has been applied
DebondBeyondShares ==
  /\ ApplyDone
  /\ call.ev.type = "debond"
  /\ call.state.shares >= 1
  /\ call.ev.shares > call.state.shares
  /\ ret.value.shares = 0

RECURSIVE SumShares(_, _)
SumShares(events, v) ==
  IF events = <<>> THEN 0
  ELSE (IF normalizeAddress(Head(events).escrow) = v THEN Head(events).shares ELSE 0)
         + SumShares(Tail(events), v)

\* the start shares as the aggregate reversal, clamped once
AggregateStartShares(v) ==
  Max(0, (IF IsCurrent(v) THEN currentSharesPerValidator(v) ELSE 0)
           - SumShares(relevantAddEvents, v) + SumShares(relevantDebondEvents, v))

JustPrepared == runPc = "sample" /\ sampleIdx = 1 /\ lastProcessedEpoch = startEpoch

\* C4: for every validator the reconstructed shares at startEpoch equal
\* max(0, currentShares - sum of newShares of its Add events in (startEpoch, endEpoch]
\*        + sum of debondingShares of its Debond events in (startEpoch, endEpoch]).
StartSharesAreAggregate ==
  JustPrepared =>
    /\ \A v \in Validators : sharesPerValidator(v) = AggregateStartShares(v)
    /\ \A v \in DOMAIN validatorState : validatorState[v].shares = AggregateStartShares(v)


FormatDone == call.fn = "toRose" /\ ret.done

IsDigit(c) == \E d \in 1..10 : DigitChars[d] = c
DigitValue(c) == (CHOOSE d \in 1..10 : DigitChars[d] = c) - 1

\* the reading of a decimal numeral: optional "-", integer digits, optional "."
\* followed by fraction digits
SignOf(str)     == IF str # <<>> /\ str[1] = "-" THEN -1 ELSE 1
Unsigned(str)   == IF str # <<>> /\ str[1] = "-" THEN Tail(str) ELSE str
PointAt(str)    == { i \in DOMAIN str : str[i] = "." }
IntDigits(str)  ==
  LET u == Unsigned(str)
  IN  IF PointAt(u) = {} THEN u ELSE SubSeq(u, 1, (CHOOSE i \in PointAt(u) : TRUE) - 1)
FracDigits(str) ==
  LET u == Unsigned(str)
  IN  IF PointAt(u) = {} THEN <<>> ELSE SubSeq(u, (CHOOSE i \in PointAt(u) : TRUE) + 1, Len(u))
IsDecimalNumeral(str) ==
  /\ Cardinality(PointAt(Unsigned(str))) <= 1
  /\ Len(IntDigits(str)) >= 1
  /\ \A i \in DOMAIN IntDigits(str) : IsDigit(IntDigits(str)[i])
  /\ \A i \in DOMAIN FracDigits(str) : IsDigit(FracDigits(str)[i])
  /\ PointAt(Unsigned(str)) # {} => Len(FracDigits(str)) >= 1

RECURSIVE DigitsValue(_)
DigitsValue(digits) ==
  IF digits = <<>> THEN 0
  ELSE 10 * DigitsValue(SubSeq(digits, 1, Len(digits) - 1)) + DigitValue(digits[Len(digits)])

Zeros(n) == [i \in 1..n |-> "0"]

\* the digits of the numeral multiplied by 10^decimals (its fraction has at most
\* that many digits): the decimal point moves right by decimals places
ScaledDigits(str, decimals) ==
  IntDigits(str) \o FracDigits(str) \o Zeros(decimals - Len(FracDigits(str)))

\* the value of those digits is sign * amount: compared in two limbs of 9 digits,
\* the low one amount mod 10^9 and the high one amount div 10^9
ParsesTo(str, decimals, amount) ==
  LET digits == ScaledDigits(str, decimals)
      abs    == IF amount < 0 THEN -amount ELSE amount
  IN  /\ (amount # 0) => (SignOf(str) = IF amount < 0 THEN -1 ELSE 1)
      /\ DigitsValue(SubSeq(digits, Len(digits) - 8, Len(digits))) = abs % Pow10(9)
      /\ DigitsValue(SubSeq(digits, 1, Len(digits) - 9)) = abs \div Pow10(9)

\* C11: for every integer amount and every extraDecimals >= 0, toRose(amount,
\* extraDecimals) read back as a decimal number and multiplied by
\* 10^(9 + extraDecimals) is exactly amount; the output is "-" followed by the
\* numeral exactly when amount is negative, its fraction (if any) does not end
\* in 0, and it has at least one integer digit.
FormatRoundTrips ==
  FormatDone =>
    LET out      == ret.value
        decimals == ROSE_DECIMALS + call.extraDecimals
    IN  /\ IsDecimalNumeral(out)
        /\ Len(FracDigits(out)) <= decimals
        /\ ParsesTo(out, decimals, call.baseUnits)
        /\ (call.baseUnits < 0) <=> (out[1] = "-")
        /\ FracDigits(out) # <<>> => FracDigits(out)[Len(FracDigits(out))] # "0"
        /\ Len(IntDigits(out)) >= 1

\* a negative amount above one ROSE whose fraction had trailing zeros removed
FormatNegativeWithFraction ==
  /\ FormatDone
  /\ call.baseUnits < 0 /\ call.extraDecimals = 0
  /\ ret.value[1] = "-"
  /\ IntDigits(ret.value) # <<"0">>
  /\ Len(FracDigits(ret.value)) \in 1..(ROSE_DECIMALS - 1)


RunReturned == call.fn = "fetchStakingRewardsTest" /\ runPc = "returned"

\* a truncation signal in what the caller receives: a flag next to the rows, or on a row
CarriesTruncationSignal(value) ==
  \/ "wasClipped" \in DOMAIN value /\ value.wasClipped
  \/ \E i \in DOMAIN value.rows : "wasClipped" \in DOMAIN value.rows[i]

\* C12: whenever a paginated fetch made during a rewards computation (Add events,
\* Debond events, current delegations, validator history) reported a clipped
\* result set, what the computation returns to its caller carries a truncation
\* signal alongside the rows.
TruncationIsSignalled ==
  (RunReturned /\ FetchClippedSeen) => CarriesTruncationSignal(ret.value)


\* the epochs whose timestamp the run looks up: startEpoch and every sample epoch
LookedUpEpochs == {startEpoch} \cup { epochsToProcess[i] : i \in DOMAIN epochsToProcess }

\* C13: a failing timestamp lookup is never fatal: whichever looked-up epoch
\* (startEpoch or a sample epoch) has a failing lookup, the computation does not
\* fail; it goes on with that timestamp unknown and returns its rows.
TimestampFailureNotFatal ==
  (\E e \in LookedUpEpochs : ~HasTimestamp(e)) => runPc # "failed"


LocateTwiceDone == call.fn = "locateTwice" /\ ret.done

\* C14: for a sorted history and two target epochs e1 <= e2, if
\* findHistoryEntryForEpoch(history, e1) returns an entry then
\* findHistoryEntryForEpoch(history, e2) returns an entry too, and its epoch is
\* >= the epoch of the entry returned for e1.
LocateIsMonotone ==
  (LocateTwiceDone /\ call.e1 <= call.e2 /\ ret.value.first # Null) =>
    /\ ret.value.second # Null
    /\ ret.value.second.epoch >= ret.value.first.epoch

\* two targets for which the locator returns two different entries
LocateMovesForward ==
  /\ LocateTwiceDone
  /\ call.e1 < call.e2
  /\ ret.value.first # Null
  /\ ret.value.second.epoch > ret.value.first.epoch
  /\ ret.value.second.epoch < call.e2


\* a step of the run that pushed a row
RowEmitted == Len(results') = Len(results) + 1

\* C15: whenever a row is emitted for a validator at sample epoch E with located
\* snapshot s, its reward is totalValue - prevTotalValue - periodDelegationValue
\* + periodUndelegationValue with totalValue = floor(shares * s.active_balance /
\* s.active_shares), and right after the emit the validator's prevTotalValue is
\* that totalValue and both period accumulators are 0.
EmitStepAccounts ==
  [][RowEmitted =>
       LET row   == results'[Len(results')]
           E     == epochsToProcess[sampleIdx]
           state == validatorState[row.validator]
           s     == findHistoryEntryForEpoch(validatorHistories(row.validator), E)
           total == (state.shares * s.active_balance) \div s.active_shares
       IN  /\ row.end_epoch = E
           /\ s # Null /\ s.epoch <= E
           /\ row.rewards = total - state.prevTotalValue - state.periodDelegationValue
                              + state.periodUndelegationValue
           /\ row.delegation_value = total
           /\ validatorState'[row.validator] =
                [shares |-> state.shares, prevTotalValue |-> total,
                 periodDelegationValue |-> 0, periodUndelegationValue |-> 0]
           /\ \A v \in DOMAIN validatorState \ {row.validator} :
                validatorState'[v] = validatorState[v]]_vars

\* a row was emitted for a period with a delegation in it, at a share price that
\* does not divide evenly, and the validator's state has started the next period
EmittedAfterDelegation ==
  /\ Len(results) >= 1
  /\ LET row == results[Len(results)]
     IN  /\ row._periodDelegationValue > 0
         /\ row._prevTotalValue > 0
         /\ row.rewards > 0
         /\ (row.shares * 3) \div 2 = row._totalValue /\ row.shares = 3
         /\ validatorState[row.validator].prevTotalValue = row._totalValue
         /\ validatorState[row.validator].periodDelegationValue = 0


\* a step of the run that applied an event
EventApplied == Len(applied') = Len(applied) + 1

\* shares priced at a snapshot; nothing when there is no snapshot
PricedAt(shares, s) ==
  IF s = Null THEN 0 ELSE (shares * s.active_balance) \div s.active_shares
\* the value of an event of the run: its shares priced at the snapshot located at its epoch
Priced(ev) ==
  PricedAt(ev.shares, findHistoryEntryForEpoch(validatorHistories(ev.validator), ev.epoch))

\* what the claim says an event does to a validator's state
StateAfterEvent(state, ev, value) ==
  IF ev.type = "add"
    THEN [shares |-> state.shares + ev.shares,
          prevTotalValue |-> state.prevTotalValue,
          periodDelegationValue |-> state.periodDelegationValue + value,
          periodUndelegationValue |-> state.periodUndelegationValue]
    ELSE [shares |-> Max(0, state.shares - ev.shares),
          prevTotalValue |-> state.prevTotalValue,
          periodDelegationValue |-> state.periodDelegationValue,
          periodUndelegationValue |-> state.periodUndelegationValue + value]

\* the applied events of a validator with their sample in (after, upTo]: the sum of
\* their values (priced) or of their shares
RECURSIVE SumApplied(_, _, _, _, _, _)
SumApplied(log, v, type, after, upTo, priced) ==
  IF log = <<>> THEN 0
  ELSE LET a == Head(log)
       IN  (IF a.tracked /\ a.ev.validator = v /\ a.ev.type = type
                /\ a.sample > after /\ a.sample <= upTo
              THEN (IF priced THEN Priced(a.ev) ELSE a.ev.shares) ELSE 0)
             + SumApplied(Tail(log), v, type, after, upTo, priced)

\* the sample epoch of the row before row k for the same validator (startEpoch if none)
PreviousRowEpoch(k) ==
  LET earlier == { j \in 1..(k - 1) : results[j].validator = results[k].validator }
  IN  IF earlier = {} THEN startEpoch
      ELSE results[CHOOSE j \in earlier : \A i \in earlier : i <= j].end_epoch

\* C16: applying an Add event for a tracked validator at epoch e increases its
\* shares by newShares and its periodDelegationValue by newShares priced at the
\* snapshot located at e; applying a Debond event decreases its shares by
\* debondingShares (floored at 0) and increases its periodUndelegationValue by
\* debondingShares priced at the snapshot located at e.  Consequently the value of
\* an Add applied within a sample period is in the periodDelegationValue that the
\* period's reward subtracts, and its shares are in the shares of that row and of
\* every later row.
ApplyStepAccounts ==
  /\ [][EventApplied =>
          LET a  == applied'[Len(applied')]
              v  == a.ev.validator
          IN  /\ a.tracked <=> v \in DOMAIN validatorState
              /\ a.ev.epoch > lastProcessedEpoch /\ a.ev.epoch <= a.sample
              /\ IF a.tracked
                   THEN /\ validatorState'[v] = StateAfterEvent(validatorState[v], a.ev, Priced(a.ev))
                        /\ \A w \in DOMAIN validatorState \ {v} :
                             validatorState'[w] = validatorState[w]
                   ELSE validatorState' = validatorState]_vars
  /\ [](ApplyDone =>
          ret.value = StateAfterEvent(call.state, call.ev,
                                      PricedAt(call.ev.shares, call.historyEntry)))
  /\ [](\A k \in DOMAIN results :
          LET row == results[k]
              v   == row.validator
          IN  /\ row._periodDelegationValue =
                   SumApplied(applied, v, "add", PreviousRowEpoch(k), row.end_epoch, TRUE)
              /\ row._periodUndelegationValue =
                   SumApplied(applied, v, "debond", PreviousRowEpoch(k), row.end_epoch, TRUE)
              /\ row.shares = sharesPerValidator(v)
                   + SumApplied(applied, v, "add", startEpoch, row.end_epoch, FALSE)
                   - SumApplied(applied, v, "debond", startEpoch, row.end_epoch, FALSE))

\* an Add applied in the first period: its value is in that row's
\* periodDelegationValue, and its shares are in that row and in the next one
AddCountedOnce ==
  /\ Len(results) >= 2
  /\ \E k \in 1..(Len(results) - 1) :
       /\ results[k].validator = results[k + 1].validator
       /\ results[k]._periodDelegationValue > 0
       /\ results[k + 1]._periodDelegationValue = 0
       /\ results[k].shares > sharesPerValidator(results[k].validator)
       /\ results[k + 1].shares = results[k].shares
  /\ \E i \in DOMAIN applied : applied[i].tracked /\ applied[i].ev.type = "add"


\* the history fetched for v holds a snapshot with epoch <= E
HasSnapshotBy(v, E) ==
  \E h \in nexus.history[v] :
    h.epoch >= Max(1, startEpoch - 100) /\ h.epoch <= endEpoch /\ h.epoch <= E

\* C17: when the history of a validator holds no snapshot with epoch <= E at sample
\* epoch E, the emit step for that validator at E pushes no row and leaves its
\* prevTotalValue, periodDelegationValue and periodUndelegationValue (its whole
\* state) as they are; no row of the run is for a validator and a sample epoch
\* without such a snapshot.
MissingSnapshotSkips ==
  /\ [][(runPc = "emit"
            /\ ~HasSnapshotBy(validators[emitIdx], epochsToProcess[sampleIdx])) =>
             /\ results' = results
             /\ validatorState' = validatorState
             /\ <<sampleIdx, emitIdx>>' # <<sampleIdx, emitIdx>>]_vars
  /\ [](\A k \in DOMAIN results : HasSnapshotBy(results[k].validator, results[k].end_epoch))

\* a validator with shares and no snapshot at the first sample was skipped there
\* and got its row at the next sample, where its history has data
RowAfterMissingSnapshot ==
  /\ granularity = "month"
  /\ \E k \in DOMAIN results :
       LET row == results[k]
       IN  /\ row.end_epoch = startEpoch + 2
           /\ ~HasSnapshotBy(row.validator, startEpoch + 1)
           /\ HasTimestamp(startEpoch + 1)
           /\ row.shares > 0
           /\ \A j \in DOMAIN results :
                results[j].validator = row.validator => results[j].end_epoch > startEpoch + 1


\* C18: at every sample epoch no row is emitted for a validator whose shares are 0
\* and whose prevTotalValue is 0 once the events of the sample period have been
\* applied, and every emitted row is for a validator with shares # 0 or
\* prevTotalValue # 0 at emit time.
ExitedNotReported ==
  /\ [][(runPc = "emit"
            /\ validatorState[validators[emitIdx]].shares = 0
            /\ validatorState[validators[emitIdx]].prevTotalValue = 0) =>
             results' = results]_vars
  /\ [][RowEmitted =>
          LET state == validatorState[results'[Len(results')].validator]
          IN  state.shares # 0 \/ state.prevTotalValue # 0]_vars
  /\ [](\A k \in DOMAIN results : results[k].shares # 0 \/ results[k]._prevTotalValue # 0)

\* a position that was fully undelegated in the first period: its last row is the
\* one of that period, and the next sample, which has a snapshot and a timestamp,
\* has no row for it
ExitedSkippedAfterLastRow ==
  /\ runPc = "sample" /\ lastProcessedEpoch = startEpoch + 2
  /\ \E k \in DOMAIN results :
       LET v == results[k].validator
       IN  /\ results[k].end_epoch = startEpoch + 1
           /\ results[k].shares = 0 /\ results[k]._prevTotalValue > 0
           /\ validatorState[v].shares = 0 /\ validatorState[v].prevTotalValue = 0
           /\ HasSnapshotBy(v, startEpoch + 2)
           /\ \A j \in DOMAIN results :
                results[j].validator = v => results[j].end_epoch # startEpoch + 2


\* the run is between its preparation and its return: applied and results are its own
InRun == runPc \in {"sample", "apply", "emit", "done"}

Occurrences(seq, x) == Cardinality({ i \in DOMAIN seq : seq[i] = x })
AppliedEvents == [i \in DOMAIN applied |-> applied[i].ev]

\* the sample epochs of the run that have a timestamp
ProcessedSamples ==
  { epochsToProcess[i] : i \in { j \in DOMAIN epochsToProcess : HasTimestamp(epochsToProcess[j]) } }

\* C19: over a whole run every event is applied to the accrual state at most once;
\* an event is applied at the first processed sample epoch E with E >= its epoch
\* (the period (previous sample, E]), so an event whose epoch equals a sample epoch
\* E is applied at E, before the rows for E are emitted, and not again in the
\* period that follows E.
EventsAppliedOncePerPeriod ==
  InRun =>
  /\ \A i \in DOMAIN applied :
       /\ Occurrences(AppliedEvents, applied[i].ev)
            <= Occurrences(EventsBetween(startEpoch + 1, endEpoch), applied[i].ev)
       /\ applied[i].ev.epoch <= applied[i].sample
       /\ applied[i].sample \in ProcessedSamples
       /\ \A E \in ProcessedSamples : E >= applied[i].ev.epoch => applied[i].sample <= E
  /\ \A k \in DOMAIN results :
       \A e \in (startEpoch + 1)..results[k].end_epoch :
         \A n \in DOMAIN eventsByEpoch(e) :
           \E i \in DOMAIN applied :
             applied[i].ev = eventsByEpoch(e)[n] /\ applied[i].sample <= results[k].end_epoch

\* an event at the first sample epoch was applied there, its validator's row for
\* that sample and for the next one were emitted, and it was applied once
EventAtSampleEpochAppliedOnce ==
  /\ granularity = "month"
  /\ \E i \in DOMAIN applied :
       /\ applied[i].tracked
       /\ applied[i].ev.epoch = startEpoch + 1 /\ applied[i].sample = startEpoch + 1
       /\ Occurrences(AppliedEvents, applied[i].ev) = 1
       /\ \E k \in DOMAIN results :
            /\ k < Len(results)
            /\ results[k].validator = applied[i].ev.validator
            /\ results[k].end_epoch = startEpoch + 1
            /\ results[k + 1].validator = applied[i].ev.validator
            /\ results[k + 1].end_epoch = startEpoch + 2
            /\ results[k + 1]._periodDelegationValue = 0
            /\ results[k + 1]._periodUndelegationValue = 0


\* the loop over the sample epochs is over
RunFinished == runPc \in {"sample", "done"} /\ sampleIdx > Len(epochsToProcess)

\* C20: a sample epoch whose timestamp is missing gets no row, yet by the end of
\* the run every event of a tracked validator with epoch in (startEpoch, endEpoch]
\* has been applied to that validator's state, whichever sample epochs (the last
\* one included) lack a timestamp.
MissingTimestampKeepsAccounting ==
  /\ InRun => \A k \in DOMAIN results : HasTimestamp(results[k].end_epoch)
  /\ RunFinished =>
       \A e \in (startEpoch + 1)..endEpoch :
         \A n \in DOMAIN eventsByEpoch(e) :
           eventsByEpoch(e)[n].validator \in DOMAIN validatorState =>
             \E i \in DOMAIN applied : applied[i].tracked /\ applied[i].ev = eventsByEpoch(e)[n]


\* C21: for every tracked validator the initial prevTotalValue is the reconstructed
\* start shares priced at the snapshot the locator returns for startEpoch on the
\* validator's fetched history (greatest snapshot epoch <= startEpoch); it is 0
\* only when that lookup returns none or the priced value is 0; both period
\* accumulators start at 0.
BaselineFromFetchedHistory ==
  JustPrepared =>
    \A v \in DOMAIN validatorState :
      LET s == findHistoryEntryForEpoch(validatorHistories(v), startEpoch)
      IN  /\ validatorState[v].shares = sharesPerValidator(v)
          /\ validatorState[v].prevTotalValue = PricedAt(sharesPerValidator(v), s)
          /\ validatorState[v].prevTotalValue = 0 =>
               (s = Null \/ PricedAt(sharesPerValidator(v), s) = 0)
          /\ validatorState[v].periodDelegationValue = 0
          /\ validatorState[v].periodUndelegationValue = 0


TotalValueDone == call.fn = "calculateTotalValue" /\ ret.done

\* C22: calculateTotalValue(userShares, snapshot) returns 0 whenever the snapshot
\* is missing or its active shares are zero, for every userShares, and otherwise
\* the truncating integer quotient (userShares * activeBalance) / activeShares:
\* the q with q * activeShares <= userShares * activeBalance < (q + 1) * activeShares.
TotalValueIsGuardedQuotient ==
  TotalValueDone =>
    LET u == call.userShares
        s == call.historyEntry
        q == ret.value
    IN  IF s = Null \/ s.active_shares = 0
          THEN q = 0
          ELSE /\ q * s.active_shares <= u * s.active_balance
               /\ u * s.active_balance < (q + 1) * s.active_shares

\* shares priced at a snapshot that holds a balance but no active shares
TotalValueOfEmptyPool ==
  /\ TotalValueDone
  /\ call.historyEntry # Null
  /\ call.historyEntry.active_shares = 0 /\ call.historyEntry.active_balance > 0
  /\ call.userShares > 0
  /\ ret.value = 0


\* the orders in which the members of a list can be listed
Reorderings(seq) ==
  { [i \in DOMAIN seq |-> seq[p[i]]] :
      p \in { f \in [DOMAIN seq -> DOMAIN seq] : \A i, j \in DOMAIN seq : f[i] = f[j] => i = j } }

\* C23: for fixed current shares and a fixed multiset of Add and Debond events,
\* the reconstructed start shares of each validator are the same for every order
\* in which the events are listed in the fetched Add list and Debond list.
ReconstructionIgnoresOrder ==
  JustPrepared =>
    \A v \in Validators :
      \A adds \in Reorderings(nexus.addEvents), debonds \in Reorderings(nexus.debondEvents) :
        LET current == IF IsCurrent(v) THEN currentSharesPerValidator(v) ELSE 0
            listed  == ReverseDebonds(ReverseAdds(current, SelectSeq(adds, IsRelevant), v),
                                      SelectSeq(debonds, IsRelevant), v)
        IN  /\ sharesPerValidator(v) = listed
            /\ v \in DOMAIN validatorState => validatorState[v].shares = listed

\* two Adds of different sizes on a validator whose current shares cover only one
\* of them, and a Debond, were reversed
ReversedUnequalAdds ==
  /\ JustPrepared
  /\ IsCurrent("v1") /\ currentSharesPerValidator("v1") = 2
  /\ Len(relevantAddEvents) = 2
  /\ normalizeAddress(relevantAddEvents[1].escrow) = "v1"
  /\ normalizeAddress(relevantAddEvents[2].escrow) = "v1"
  /\ relevantAddEvents[1].shares # relevantAddEvents[2].shares
  /\ Len(relevantDebondEvents) >= 1
  /\ validatorState["v1"].shares >= 1


\* C24: within a run, events are applied in non-decreasing epoch order and
\* lastProcessedEpoch only increases; no event with epoch e is applied after an
\* event or an emit at an epoch greater than e.
AccrualInEpochOrder ==
  /\ [][EventApplied =>
          LET e == applied'[Len(applied')].ev.epoch
          IN  /\ \A i \in DOMAIN applied : applied[i].ev.epoch <= e
              /\ \A k \in DOMAIN results : results[k].end_epoch < e
              /\ lastProcessedEpoch < e]_vars
  /\ [][runPc # "start" => lastProcessedEpoch' >= lastProcessedEpoch]_vars
  /\ [][RowEmitted =>
          /\ results'[Len(results')].end_epoch = lastProcessedEpoch
          /\ \A i \in DOMAIN applied : applied[i].ev.epoch <= lastProcessedEpoch]_vars

\* two events of different epochs were applied, in epoch order, within the one
\* sample period of the "year" run, and a row followed
TwoEpochsInOnePeriod ==
  /\ granularity = "year"
  /\ Len(applied) = 2
  /\ applied[1].tracked /\ applied[2].tracked
  /\ applied[1].ev.epoch < applied[2].ev.epoch
  /\ applied[1].sample = applied[2].sample
  /\ Len(results) >= 1

RowsOf(rows, v) ==
  LET OfV(r) == r.validator = v
  IN  SelectSeq(rows, OfV)

SecondRunFinished == call.fn = "compare" /\ call.run = 2 /\ RunFinished

\* the two indexes agree on the start shares, the events and the history of v and on
\* the timestamps
AgreeOn(v) ==
  /\ call.shares[v] = sharesPerValidator(v)
  /\ call.events[v] = EventsOf(v)
  /\ call.history[v] = nexus.history[v]
  /\ call.failingEpochs = nexus.failingEpochs

\* an applied event changes the state of its validator only, nothing when the validator
\* is not tracked; an emitted row changes the state of its validator only
OnlyOwnStateChanges ==
  /\ [][EventApplied =>
          LET a == applied'[Len(applied')]
          IN  /\ results' = results
              /\ DOMAIN validatorState' = DOMAIN validatorState
              /\ \A v \in DOMAIN validatorState :
                   v # a.ev.validator => validatorState'[v] = validatorState[v]
              /\ ~a.tracked => validatorState' = validatorState]_vars
  /\ [][RowEmitted =>
          LET r == results'[Len(results')]
          IN  /\ DOMAIN validatorState' = DOMAIN validatorState
              /\ \A v \in DOMAIN validatorState :
                   v # r.validator => validatorState'[v] = validatorState[v]]_vars

\* C25 as stated: an event changes the state of its validator only and a row the state
\* of its validator only, an event of an untracked validator changes nothing, and two
\* runs that agree on the start shares, the events and the history of a validator and
\* on the timestamps emit the same rows for it
RowsDependOnOwnData ==
  /\ OnlyOwnStateChanges
  /\ [](SecondRunFinished =>
          \A v \in Validators :
            AgreeOn(v) => RowsOf(results, v) = RowsOf(ret.value.rows, v))

\* C25, amended: an event changes the state of its validator only and a row the state
\* of its validator only, an event of an untracked validator changes nothing, and two
\* runs that agree on the start shares, the events and the history of a validator, on
\* whether the current delegations list it, and on the timestamps emit the same rows
\* for it
RowsDependOnOwnDataAndListing ==
  /\ OnlyOwnStateChanges
  /\ [](SecondRunFinished =>
          \A v \in Validators :
            (AgreeOn(v) /\ call.current[v] = IsCurrent(v))
              => RowsOf(results, v) = RowsOf(ret.value.rows, v))

\* both runs emitted rows for v1 while v2 has events and a delegation in one run only
SameRowsBesideOtherValidator ==
  /\ SecondRunFinished
  /\ AgreeOn("v1") /\ call.current["v1"] = IsCurrent("v1")
  /\ RowsOf(results, "v1") # <<>>
  /\ call.events["v2"] # EventsOf("v2")
  /\ call.current["v2"] # IsCurrent("v2")
  /\ results # ret.value.rows


RowCount(v, E) ==
  Cardinality({ k \in DOMAIN results : results[k].validator = v /\ results[k].end_epoch = E })

\* state.shares of v when its row of sample E is decided: the start shares, or what
\* the last event applied at a sample up to E left
SharesAt(v, E) ==
  LET idx == { i \in DOMAIN applied : applied[i].ev.validator = v /\ applied[i].sample <= E }
  IN  IF idx = {}
        THEN sharesPerValidator(v)
        ELSE applied[CHOOSE i \in idx : \A j \in idx : j <= i].after

\* state.prevTotalValue of v when its row of sample E is decided: the baseline, or
\* the value of its last row before E
PrevTotalValueAt(v, E) ==
  LET idx == { k \in DOMAIN results : results[k].validator = v /\ results[k].end_epoch < E }
  IN  IF idx = {}
        THEN calculateTotalValue(sharesPerValidator(v), fetchHistoryAtEpoch(v, startEpoch))
        ELSE results[CHOOSE k \in idx : \A j \in idx : j <= k].delegation_value

\* C26: a run emits at most one row per (validator, sample epoch), in non-decreasing
\* end_epoch order, and by the end of the run exactly one row for a tracked validator
\* at a sample epoch whenever the sample has a timestamp, the history of the validator
\* holds a snapshot at or before that epoch, and the validator does not have both
\* shares = 0 and prevTotalValue = 0 when the sample is processed
RowSetShape ==
  InRun =>
    /\ \A k \in DOMAIN results :
         /\ results[k].validator \in DOMAIN validatorState
         /\ \E i \in DOMAIN epochsToProcess : epochsToProcess[i] = results[k].end_epoch
         /\ RowCount(results[k].validator, results[k].end_epoch) = 1
    /\ \A j, k \in DOMAIN results : j <= k => results[j].end_epoch <= results[k].end_epoch
    /\ RunFinished =>
         \A v \in DOMAIN validatorState : \A i \in DOMAIN epochsToProcess :
           LET E == epochsToProcess[i]
           IN  ( /\ HasTimestamp(E)
                 /\ HasSnapshotBy(v, E)
                 /\ ~(SharesAt(v, E) = 0 /\ PrevTotalValueAt(v, E) = 0) )
                 => RowCount(v, E) = 1

\* a finished run with two rows of one validator, and a processed sample where another
\* tracked validator got none
RowsAtEverySampleForOne ==
  /\ InRun /\ RunFinished
  /\ Len(epochsToProcess) >= 2
  /\ \E v \in DOMAIN validatorState :
       \A i \in DOMAIN epochsToProcess : RowCount(v, epochsToProcess[i]) = 1
  /\ \E v \in DOMAIN validatorState : \E i \in DOMAIN epochsToProcess :
       HasTimestamp(epochsToProcess[i]) /\ RowCount(v, epochsToProcess[i]) = 0


=============================================================================
